---- MODULE Spec2Model ----
(***************************************************************************)
(* A model of butane_core's two relationship types:                        *)
(*   ForeignKey<T> (src/butane_core/src/fkey.rs), a pair of tokio          *)
(*   OnceCells (val, valpk) resolved by the async load(), and              *)
(*   Many<T> (src/butane_core/src/many.rs), a join-table backed            *)
(*   collection with the pending logs new_values and removed_values.       *)
(* SpecFK explores one ForeignKey under concurrent load() callers;         *)
(* SpecMany explores one Many against a join table.                        *)
(***************************************************************************)
EXTENDS Integers, Sequences, FiniteSets, TLC

\* ------------------------------------------------------------------ bounds
\* number of tasks that may have a load() of the same ForeignKey in flight
MaxCallers == 2
\* cap on the number of T::get lookups issued on one ForeignKey
MaxLookups == 3
\* cap on the length of each pending log of a Many
MaxLog == 2
\* cap on the number of identical (owner, has) rows in a join table
MaxDup == 1
\* cap on the number of rows a VecRows cursor is built over
MaxRows == 2
\* cap on the number of next() calls on one cursor
MaxNext == 4

\* ------------------------------------------------------------ value domain
\* Option<T>: None is the empty tuple, Some(x) the one-element tuple
None == <<>>
Some(x) == <<x>>
IsSome(o) == o # <<>>
Unwrap(o) == o[1]

\* the primary key of an entity whose automatic key is not assigned yet
Unassigned == 0
\* primary keys of entities that were given a key
ValidKeys == {1, 2}
AllKeys == ValidKeys \cup {Unassigned}
\* primary keys of the rows of T's own table: the entities with a valid key
\* are the saved ones
Stored == ValidKeys
IsValid(k) == k # Unassigned

\* an entity is its primary key and the rest of its fields; the row of T's
\* table with key k is Entity(k), an object built in memory may differ
Bodies == {"db", "mem"}
Entities == [pk : AllKeys, body : Bodies]
Entity(k) == [pk |-> k, body |-> "db"]

\* SqlVal: a tagged value.  Keys are stored as Int; Text stands for any
\* SqlVal that is not a key of T
ToSql(k) == [ty |-> "Int", v |-> k]
TextVal == [ty |-> "Text", v |-> 1]
SqlVals == {ToSql(k) : k \in AllKeys} \cup {TextVal}

\* Result<T>: err is "ok" or the error's name, val the value
Ok(x) == [err |-> "ok", val |-> Some(x)]
Err(e) == [err |-> e, val |-> None]
NoResult == [err |-> "none", val |-> None]
IsOk(r) == r.err = "ok"

\* T::PKType::from_sql_ref: only an Int converts to a key
FromSql(s) == IF s.ty = "Int" THEN Ok(s.v) ELSE Err("CannotConvertSqlVal")

\* T::get(conn, pk) when the backend answers: the row with that key
DbGet(k) == IF k \in Stored THEN Ok(Entity(k)) ELSE Err("NoSuchObject")

Callers == 1..MaxCallers

VARIABLES
    \* ---- ForeignKey
    fk,         \* [val, valpk]: the two OnceCells of the reference
    origin,     \* how the reference was constructed
    pc,         \* per caller: position inside load()
    res,        \* per caller: what its load() returned
    ran,        \* per caller: whether its load() issued a T::get lookup
    overlap,    \* per caller: callers whose load() was in flight together with its own
    permit,     \* the OnceCell semaphore's single permit is available
    lookups,    \* number of T::get calls issued for this reference
    fails,      \* number of T::get calls that returned an error
    other,      \* a second reference, the one fk is compared with
    got,        \* what the last get() on the reference returned
    \* ---- Many
    item_table,     \* name of the join table
    owner,          \* Option<SqlVal>: the owner's key once init has run
    owner_type,     \* SqlType of the owner column
    new_values,     \* pending-add log
    removed_values, \* pending-remove log
    all_values,     \* the OnceCell holding the loaded members
    join,           \* the database: per join table, the number of rows (owner, has)
    ret,            \* the last call on the Many: operation, argument, what it returned
    calls,          \* the ConnectionMethods calls the last call issued, in order
    scen,           \* progress of the add/persist and remove/persist scenarios
    \* ---- concurrent load() callers of the Many
    lpc,        \* per caller: position inside load()/load_ordered()
    lres,       \* per caller: what its call returned
    lord,       \* per caller: the direction its call asked for
    lpermit,    \* the permit of all_values is available
    lvals,      \* per caller: the members its closure has collected so far
    \* ---- connection: VecRows cursor, MapDeref, VecRow, default delete
    rows,       \* VecRows.rows
    idx,        \* VecRows.idx
    seen,       \* the rows next() has returned so far, in order
    adapter,    \* the cursor was moved into a MapDeref by mapped()
    failures,   \* number of projection errors MapDeref::next has returned
    cret,       \* the last call: operation, arguments, what it returned
    ccalls,     \* the ConnectionMethods calls the last call issued
    \* ---- key side of the ForeignKey: pk, eq, serialize/deserialize
    kret        \* the last such call: operation, the reference before, result

fkvars == <<fk, origin, pc, res, ran, overlap, permit, lookups, fails, other, got>>
manyvars == <<item_table, owner, owner_type, new_values, removed_values,
              all_values, join, ret, calls, scen>>
loadvars == <<lpc, lres, lord, lpermit, lvals>>
connvars == <<rows, idx, seen, adapter, failures, cret, ccalls>>
keyvars == <<kret>>
vars == <<fk, origin, pc, res, ran, overlap, permit, lookups, fails, other, got,
          item_table, owner, owner_type, new_values, removed_values,
          all_values, join, ret, calls, scen,
          lpc, lres, lord, lpermit, lvals,
          rows, idx, seen, adapter, failures, cret, ccalls, kret>>

\* ------------------------------------------------------------ ForeignKey
new_raw == [val |-> None, valpk |-> None]
from_pk(k) == [val |-> None, valpk |-> Some(ToSql(k))]
from_entity_KeyOnly(e) == [val |-> None, valpk |-> Some(ToSql(e.pk))]
from_entity(e) == [val |-> Some(e), valpk |-> None]
from_ref(e) == from_pk(e.pk)
from_sql_ref(s) == [val |-> None, valpk |-> Some(s)]
\* Deserialize::visit_map over a map with the optional fields val, valpk
visit_map(field_0, field_1) ==
    IF IsSome(field_0) /\ IsSome(field_1)
    THEN [val |-> field_0, valpk |-> field_1]
    ELSE new_raw
dummy_with_rng == new_raw

\* ForeignKey::pk
pk(f) ==
    IF IsSome(f.val) THEN Ok(Unwrap(f.val).pk)
    ELSE IF IsSome(f.valpk)
         THEN (IF IsOk(FromSql(Unwrap(f.valpk)))
               THEN FromSql(Unwrap(f.valpk)) ELSE Err("panic"))
         ELSE Err("panic")

ensure_valpk_Unassigned(x) ==
    IF IsSome(x.valpk) THEN Some(x)
    ELSE IF IsSome(x.val)
         THEN Some([x EXCEPT !.valpk = Some(ToSql(Unassigned))])
         ELSE None

\* ForeignKey::ensure_valpk: the reference afterwards (None: it panics)
ensure_valpk(f) ==
    IF IsSome(f.valpk) THEN Some(f)
    ELSE IF IsSome(f.val)
         THEN Some([f EXCEPT !.valpk = Some(ToSql(Unwrap(f.val).pk))])
         ELSE None

\* ForeignKey::get
get_OfKey(f) ==
    IF IsSome(f.valpk) THEN Ok(Entity(Unwrap(f.valpk).v)) ELSE Err("ValueNotLoaded")

get(f) ==
    IF IsSome(f.val) THEN Ok(Unwrap(f.val)) ELSE Err("ValueNotLoaded")

\* AsPk for ForeignKey: as_pk is Cow::Owned(self.pk())
as_pk(f) == pk(f)

\* PartialEq for ForeignKey: Ok(TRUE), Ok(FALSE), or the panic of an unwrap
eq_Cells(f, g) == Ok(f.valpk = g.valpk)

eq(f, g) ==
    IF IsSome(f.val)
    THEN (IF IsOk(as_pk(g)) THEN Ok(Unwrap(f.val).pk = Unwrap(as_pk(g).val))
          ELSE Err("panic"))
    ELSE IF IsSome(f.valpk)
         THEN (IF IsOk(as_pk(g))
               THEN Ok(Unwrap(f.valpk) = ToSql(Unwrap(as_pk(g).val)))
               ELSE Err("panic"))
         ELSE Err("panic")

Constructed ==
    {[f |-> from_pk(k), kind |-> "from_pk", pk |-> k, e |-> None] : k \in AllKeys}
    \cup {[f |-> from_entity(e), kind |-> "from_entity", pk |-> e.pk, e |-> Some(e)]
            : e \in Entities}
    \cup {[f |-> from_ref(e), kind |-> "from_ref", pk |-> e.pk, e |-> Some(e)]
            : e \in Entities}
    \cup {[f |-> from_sql_ref(s), kind |-> "from_sql_ref", pk |-> s.v, e |-> None]
            : s \in SqlVals}
    \cup {[f |-> visit_map(f0, f1), kind |-> "deserialize", pk |-> Unassigned, e |-> f0]
            : f0 \in {None} \cup {Some(e) : e \in Entities},
              f1 \in {None} \cup {Some(s) : s \in SqlVals}}
    \cup {[f |-> dummy_with_rng, kind |-> "dummy", pk |-> Unassigned, e |-> None]}

\* the references a ForeignKey is compared with: each key in each cache
\* state (key only, value only, both)
Others ==
    {from_pk(k) : k \in AllKeys}
    \cup {from_entity(Entity(k)) : k \in AllKeys}
    \cup {visit_map(Some(Entity(k)), Some(ToSql(k))) : k \in AllKeys}

\* ------------------------------------------------------------------ Many
\* names of join tables, keys of owners and column types of owner keys
Tables == {"post_tags_Many", "blog_tags_Many"}
Owners == {7, 8}
SqlTypes == {"Int", "BigInt"}
\* the (item_table, owner, owner_type) triples ensure_init is called with
InitArgs == {<<"post_tags_Many", 7, "Int">>, <<"blog_tags_Many", 8, "BigInt">>}
\* the rows a join table can hold: (owner, has)
Rows == Owners \X ValidKeys
EmptyTable == [r \in Rows |-> 0]
\* rows the join tables hold before the Many is constructed: one owner has
\* a member, the other has none
InitialRows == {<<7, 1>>}

SetOf(s) == {s[i] : i \in DOMAIN s}
Perms(S) == {p \in [1..Cardinality(S) -> S] : \A i, j \in DOMAIN p : i # j => p[i] # p[j]}

NoScen == [c3 |-> [stage |-> 0, a |-> 0], c5 |-> [stage |-> 0, a |-> 0, b |-> 0],
           c13 |-> 0]
Returned(op, arg, ord, r) == [op |-> op, arg |-> arg, ord |-> ord, res |-> r]

\* Many::new
ManyNew ==
    /\ item_table = "not_initialized"
    /\ owner = None
    /\ owner_type = "Int"
    /\ new_values = <<>>
    /\ removed_values = <<>>
    /\ all_values = None

\* the Many while only the ForeignKey is exercised
ManyParked ==
    /\ ManyNew
    /\ join = [t \in Tables |-> EmptyTable]
    /\ ret = Returned("new", 0, "", Ok(<<>>))
    /\ calls = <<>>
    /\ scen = NoScen

\* no pk(), eq() or serialize() call was made yet
KeyParked == kret = [op |-> "none", was |-> new_raw, res |-> NoResult]

\* no load() of the Many is in flight
LoadParked ==
    /\ lpc = [c \in Callers |-> "idle"]
    /\ lres = [c \in Callers |-> NoResult]
    /\ lord = [c \in Callers |-> ""]
    /\ lpermit = TRUE
    /\ lvals = [c \in Callers |-> <<>>]

\* the cursor while only the references are exercised: VecRows::new over
\* no rows
ConnParked ==
    /\ rows = <<>>
    /\ idx = 0
    /\ seen = <<>>
    /\ adapter = FALSE
    /\ failures = 0
    /\ cret = [op |-> "new", args |-> <<>>, res |-> NoResult]
    /\ ccalls = <<>>

FKInit ==
    /\ ManyParked
    /\ LoadParked
    /\ ConnParked
    /\ KeyParked
    /\ \E c \in Constructed :
         /\ fk = c.f
         /\ origin = [kind |-> c.kind, pk |-> c.pk, e |-> c.e]
    /\ pc = [c \in Callers |-> "idle"]
    /\ res = [c \in Callers |-> NoResult]
    /\ ran = [c \in Callers |-> FALSE]
    /\ overlap = [c \in Callers |-> {}]
    /\ permit = TRUE
    /\ lookups = 0
    /\ fails = 0
    /\ other \in Others
    /\ got = NoResult

InFlight(c) == pc[c] \in {"waiting", "computing"}

\* load(): OnceCell::get_or_try_init entered.  An initialized cell returns
\* its value at once; otherwise the caller goes on to acquire the permit.
LoadCall(c) ==
    /\ pc[c] = "idle"
    /\ IF IsSome(fk.val)
       THEN /\ pc' = [pc EXCEPT ![c] = "done"]
            /\ res' = [res EXCEPT ![c] = Ok(Unwrap(fk.val))]
            /\ UNCHANGED overlap
       ELSE /\ pc' = [pc EXCEPT ![c] = "waiting"]
            /\ res' = [res EXCEPT ![c] = NoResult]
            /\ overlap' = [d \in Callers |->
                             IF d = c THEN {x \in Callers : InFlight(x)}
                             ELSE IF InFlight(d) THEN overlap[d] \cup {c}
                             ELSE overlap[d]]
    /\ ran' = [ran EXCEPT ![c] = FALSE]
    /\ UNCHANGED <<fk, origin, permit, lookups, fails>>
    /\ UNCHANGED <<other, got>>
    /\ UNCHANGED <<manyvars, loadvars, connvars, keyvars>>

\* the semaphore hands the permit to a waiting caller, which runs its
\* closure up to the await of T::get
LoadAcquire_NoPermit(c) ==
    /\ pc[c] = "waiting"
    /\ ~IsSome(fk.val)
    /\ IsSome(fk.valpk)
    /\ IsOk(FromSql(Unwrap(fk.valpk)))
    /\ lookups < MaxLookups
    /\ pc' = [pc EXCEPT ![c] = "computing"]
    /\ permit' = FALSE
    /\ lookups' = lookups + 1
    /\ ran' = [ran EXCEPT ![c] = TRUE]
    /\ UNCHANGED <<fk, origin, overlap, fails, res>>
    /\ UNCHANGED <<other, got>>
    /\ UNCHANGED <<manyvars, loadvars, connvars, keyvars>>

LoadAcquire(c) ==
    /\ pc[c] = "waiting"
    /\ permit
    /\ ~IsSome(fk.val)
    /\ IF ~IsSome(fk.valpk)
       THEN \* self.valpk.get().unwrap() panics; unwinding drops the permit
            /\ pc' = [pc EXCEPT ![c] = "done"]
            /\ res' = [res EXCEPT ![c] = Err("panic")]
            /\ UNCHANGED <<permit, lookups, ran>>
       ELSE IF ~IsOk(FromSql(Unwrap(fk.valpk)))
       THEN \* from_sql_ref(..)? returns the conversion error
            /\ pc' = [pc EXCEPT ![c] = "done"]
            /\ res' = [res EXCEPT ![c] = Err(FromSql(Unwrap(fk.valpk)).err)]
            /\ UNCHANGED <<permit, lookups, ran>>
       ELSE /\ lookups < MaxLookups
            /\ pc' = [pc EXCEPT ![c] = "computing"]
            /\ permit' = FALSE
            /\ lookups' = lookups + 1
            /\ ran' = [ran EXCEPT ![c] = TRUE]
            /\ UNCHANGED res
    /\ UNCHANGED <<fk, origin, overlap, fails>>
    /\ UNCHANGED <<other, got>>
    /\ UNCHANGED <<manyvars, loadvars, connvars, keyvars>>

\* the semaphore was closed by a successful initialization: a waiting
\* caller is woken and returns the cached value
LoadWake(c) ==
    /\ pc[c] = "waiting"
    /\ IsSome(fk.val)
    /\ pc' = [pc EXCEPT ![c] = "done"]
    /\ res' = [res EXCEPT ![c] = Ok(Unwrap(fk.val))]
    /\ UNCHANGED <<fk, origin, ran, overlap, permit, lookups, fails>>
    /\ UNCHANGED <<other, got>>
    /\ UNCHANGED <<manyvars, loadvars, connvars, keyvars>>

\* T::get answers the caller holding the permit
LoadCompute_NoStore(c) ==
    /\ pc[c] = "computing"
    /\ \E r \in {DbGet(Unwrap(FromSql(Unwrap(fk.valpk)).val)), Err("BackendError")} :
         /\ res' = [res EXCEPT ![c] = r]
         /\ fails' = IF IsOk(r) THEN fails ELSE fails + 1
    /\ permit' = TRUE
    /\ pc' = [pc EXCEPT ![c] = "done"]
    /\ UNCHANGED <<fk, origin, ran, overlap, lookups>>
    /\ UNCHANGED <<other, got>>
    /\ UNCHANGED <<manyvars, loadvars, connvars, keyvars>>

LoadCompute(c) ==
    /\ pc[c] = "computing"
    /\ \E r \in {DbGet(Unwrap(FromSql(Unwrap(fk.valpk)).val)), Err("BackendError")} :
         IF IsOk(r)
         THEN /\ fk' = [fk EXCEPT !.val = r.val]
              /\ res' = [res EXCEPT ![c] = r]
              /\ UNCHANGED <<permit, fails>>
         ELSE /\ permit' = TRUE
              /\ fails' = fails + 1
              /\ res' = [res EXCEPT ![c] = r]
              /\ UNCHANGED fk
    /\ pc' = [pc EXCEPT ![c] = "done"]
    /\ UNCHANGED <<origin, ran, overlap, lookups>>
    /\ UNCHANGED <<other, got>>
    /\ UNCHANGED <<manyvars, loadvars, connvars, keyvars>>

\* the caller drops the Result of its load()
LoadDrop(c) ==
    /\ pc[c] = "done"
    /\ pc' = [pc EXCEPT ![c] = "idle"]
    /\ res' = [res EXCEPT ![c] = NoResult]
    /\ ran' = [ran EXCEPT ![c] = FALSE]
    /\ overlap' = [d \in Callers |-> IF d = c THEN {} ELSE overlap[d] \ {c}]
    /\ UNCHANGED <<fk, origin, permit, lookups, fails>>
    /\ UNCHANGED <<other, got>>
    /\ UNCHANGED <<manyvars, loadvars, connvars, keyvars>>

\* to_sql / to_sql_ref / Debug::fmt: ensure_valpk memoizes the key
FKToSql ==
    /\ ~IsSome(fk.valpk)
    /\ IsSome(ensure_valpk(fk))
    /\ fk' = Unwrap(ensure_valpk(fk))
    /\ UNCHANGED <<origin, pc, res, ran, overlap, permit, lookups, fails>>
    /\ UNCHANGED <<other, got>>
    /\ UNCHANGED <<manyvars, loadvars, connvars, keyvars>>

\* clone(): the model goes on with the clone, a fresh reference that holds
\* the key only
FKClone ==
    /\ \A c \in Callers : pc[c] = "idle"
    /\ IsSome(ensure_valpk(fk))
    /\ fk' = [val |-> None, valpk |-> Unwrap(ensure_valpk(fk)).valpk]
    /\ origin' = [kind |-> "clone", pk |-> origin.pk, e |-> None]
    /\ permit' = TRUE
    /\ lookups' = 0
    /\ fails' = 0
    /\ got' = NoResult
    /\ UNCHANGED <<pc, res, ran, overlap, other>>
    /\ UNCHANGED <<manyvars, loadvars, connvars, keyvars>>

\* get(): reads the val cell
FKGet ==
    /\ got' = get(fk)
    /\ UNCHANGED <<fk, origin, pc, res, ran, overlap, permit, lookups, fails, other>>
    /\ UNCHANGED <<manyvars, loadvars, connvars, keyvars>>

FKNext ==
    \/ \E c \in Callers : LoadCall(c)
    \/ \E c \in Callers : LoadAcquire(c)
    \/ \E c \in Callers : LoadWake(c)
    \/ \E c \in Callers : LoadCompute(c)
    \/ \E c \in Callers : LoadDrop(c)
    \/ FKToSql
    \/ FKClone
    \/ FKGet

SpecFK == FKInit /\ [][FKNext]_vars

\* --------------------------------------------------------- Many: actions
\* the keys this owner has a join row for, in table t
Members(t, o) == {k \in ValidKeys : join[t][<<o, k>>] > 0}
\* the keys of the pending-add log that are rows of T's table
NewStored == {k \in Stored : ToSql(k) \in SetOf(new_values)}
RemovedKeys == {removed_values[i].v : i \in DOMAIN removed_values}

\* Query::load: the rows of T's table whose key is in S, as the backend
\* returns them: in any order without an ORDER BY, else sorted by key
QueryLoad(S, ord) ==
    LET keyseqs ==
          IF ord = "" THEN Perms(S)
          ELSE {p \in Perms(S) :
                  \A i, j \in DOMAIN p :
                     i < j => IF ord = "Asc" THEN p[i] < p[j] ELSE p[i] > p[j]}
    IN {[i \in DOMAIN p |-> Entity(p[i])] : p \in keyseqs}

\* the ConnectionMethods calls as they are recorded in calls
InsertCall(o, k) == [op |-> "insert_only", table |-> item_table, col |-> "", vals |-> <<o, k>>]
DeleteHasCall == [op |-> "delete_where", table |-> item_table, col |-> "has",
                  vals |-> [i \in DOMAIN removed_values |-> removed_values[i].v]]
DeleteOwnerCall(o) == [op |-> "delete_where", table |-> item_table, col |-> "owner", vals |-> <<o>>]
QueryJoinCall(o) == [op |-> "query", table |-> item_table, col |-> "owner", vals |-> <<o>>]
QueryNewCall == [op |-> "query", table |-> "T", col |-> "pk",
                 vals |-> [i \in DOMAIN new_values |-> new_values[i].v]]

\* the scenario of removing a persisted member: remove(a) on an initialized
\* Many with members {a, b} and empty logs (1), load (2), save (3), load (4)
C3Step ==
    IF /\ ret'.op = "remove"
       /\ IsSome(owner)
       /\ new_values = <<>> /\ removed_values = <<>>
       /\ ret'.arg \in Members(item_table, Unwrap(owner))
       /\ Cardinality(Members(item_table, Unwrap(owner))) = 2
       /\ Members(item_table, Unwrap(owner)) \subseteq Stored
    THEN [stage |-> 1, a |-> ret'.arg]
    ELSE IF scen.c3.stage = 1 /\ ret'.op = "load" /\ IsOk(ret'.res)
    THEN [scen.c3 EXCEPT !.stage = 2]
    ELSE IF scen.c3.stage = 2 /\ ret'.op = "save" /\ IsOk(ret'.res)
    THEN [scen.c3 EXCEPT !.stage = 3]
    ELSE IF scen.c3.stage = 3 /\ ret'.op = "load" /\ IsOk(ret'.res)
    THEN [scen.c3 EXCEPT !.stage = 4]
    ELSE NoScen.c3

\* the scenario of adding two members: ensure_init binds an owner without
\* join rows (1), add(a) (2), add(b) (3), load (4), save (5), load (6)
C5Step ==
    IF /\ ret'.op = "ensure_init"
       /\ ~IsSome(owner)
       /\ new_values = <<>> /\ removed_values = <<>>
       /\ \A k \in ValidKeys : join[item_table'][<<Unwrap(owner'), k>>] = 0
    THEN [stage |-> 1, a |-> 0, b |-> 0]
    ELSE IF /\ scen.c5.stage = 1 /\ ret'.op = "add" /\ IsOk(ret'.res)
            /\ ret'.arg \in Stored
    THEN [stage |-> 2, a |-> ret'.arg, b |-> 0]
    ELSE IF /\ scen.c5.stage = 2 /\ ret'.op = "add" /\ IsOk(ret'.res)
            /\ ret'.arg \in Stored \ {scen.c5.a}
    THEN [stage |-> 3, a |-> scen.c5.a, b |-> ret'.arg]
    ELSE IF scen.c5.stage = 3 /\ ret'.op = "load" /\ IsOk(ret'.res)
    THEN [scen.c5 EXCEPT !.stage = 4]
    ELSE IF scen.c5.stage \in {3, 4} /\ ret'.op = "save" /\ IsOk(ret'.res)
    THEN [scen.c5 EXCEPT !.stage = 5]
    ELSE IF scen.c5.stage = 5 /\ ret'.op = "load" /\ IsOk(ret'.res)
    THEN [scen.c5 EXCEPT !.stage = 6]
    ELSE NoScen.c5

\* the scenario of a failed load: load or load_ordered returned an error (1)
\* and the call that came next was a load or load_ordered that succeeded (2)
C13Step ==
    IF ret'.op \in {"load", "load_ordered"} /\ ~IsOk(ret'.res) THEN 1
    ELSE IF scen.c13 = 1 /\ ret'.op \in {"load", "load_ordered"} THEN 2
    ELSE 0

Observe == scen' = [c3 |-> C3Step, c5 |-> C5Step, c13 |-> C13Step]

\* Many::ensure_init
EnsureInit_Rebind(t, o, ty) ==
    /\ item_table' = t
    /\ owner' = Some(o)
    /\ owner_type' = ty
    /\ all_values' = None
    /\ UNCHANGED <<new_values, removed_values, join>>
    /\ ret' = Returned("ensure_init", o, "", Ok(<<>>))
    /\ calls' = <<>>
    /\ Observe
    /\ UNCHANGED <<fkvars, loadvars, connvars, keyvars>>

EnsureInit(t, o, ty) ==
    /\ IF IsSome(owner)
       THEN UNCHANGED <<item_table, owner, owner_type, all_values>>
       ELSE /\ item_table' = t
            /\ owner' = Some(o)
            /\ owner_type' = ty
            /\ all_values' = None
    /\ UNCHANGED <<new_values, removed_values, join>>
    /\ ret' = Returned("ensure_init", o, "", Ok(<<>>))
    /\ calls' = <<>>
    /\ Observe
    /\ UNCHANGED <<fkvars, loadvars, connvars, keyvars>>

\* Many::add, with the key of the entity passed
Add_NoCheck(k) ==
    /\ Len(new_values) < MaxLog
    /\ all_values' = None
    /\ new_values' = Append(new_values, ToSql(k))
    /\ ret' = Returned("add", k, "", Ok(<<>>))
    /\ UNCHANGED <<item_table, owner, owner_type, removed_values, join>>
    /\ calls' = <<>>
    /\ Observe
    /\ UNCHANGED <<fkvars, loadvars, connvars, keyvars>>

Add_KeepCache(k) ==
    /\ IF ~IsValid(k)
       THEN /\ ret' = Returned("add", k, "", Err("ValueNotSaved"))
            /\ UNCHANGED new_values
       ELSE /\ Len(new_values) < MaxLog
            /\ new_values' = Append(new_values, ToSql(k))
            /\ ret' = Returned("add", k, "", Ok(<<>>))
    /\ UNCHANGED <<item_table, owner, owner_type, removed_values, all_values, join>>
    /\ calls' = <<>>
    /\ Observe
    /\ UNCHANGED <<fkvars, loadvars, connvars, keyvars>>

Add(k) ==
    /\ IF ~IsValid(k)
       THEN /\ ret' = Returned("add", k, "", Err("ValueNotSaved"))
            /\ UNCHANGED <<all_values, new_values>>
       ELSE /\ Len(new_values) < MaxLog
            /\ all_values' = None
            /\ new_values' = Append(new_values, ToSql(k))
            /\ ret' = Returned("add", k, "", Ok(<<>>))
    /\ UNCHANGED <<item_table, owner, owner_type, removed_values, join>>
    /\ calls' = <<>>
    /\ Observe
    /\ UNCHANGED <<fkvars, loadvars, connvars, keyvars>>

\* Many::remove, with the key of the entity passed
Remove_MembersOnly(k) ==
    /\ Len(removed_values) < MaxLog
    /\ all_values' = None
    /\ removed_values' =
          IF IsSome(owner) /\ k \in Members(item_table, Unwrap(owner))
          THEN Append(removed_values, ToSql(k)) ELSE removed_values
    /\ ret' = Returned("remove", k, "", Ok(<<>>))
    /\ UNCHANGED <<item_table, owner, owner_type, new_values, join>>
    /\ calls' = <<>>
    /\ Observe
    /\ UNCHANGED <<fkvars, loadvars, connvars, keyvars>>

Remove(k) ==
    /\ Len(removed_values) < MaxLog
    /\ all_values' = None
    /\ removed_values' = Append(removed_values, ToSql(k))
    /\ ret' = Returned("remove", k, "", Ok(<<>>))
    /\ UNCHANGED <<item_table, owner, owner_type, new_values, join>>
    /\ calls' = <<>>
    /\ Observe
    /\ UNCHANGED <<fkvars, loadvars, connvars, keyvars>>

\* Many::get
Get_Empty ==
    /\ ret' = Returned("get", 0, "",
                       IF IsSome(all_values) THEN Ok(Unwrap(all_values))
                       ELSE Ok(<<>>))
    /\ UNCHANGED <<item_table, owner, owner_type, new_values, removed_values,
                   all_values, join>>
    /\ calls' = <<>>
    /\ Observe
    /\ UNCHANGED <<fkvars, loadvars, connvars, keyvars>>

Get ==
    /\ ret' = Returned("get", 0, "",
                       IF IsSome(all_values) THEN Ok(Unwrap(all_values))
                       ELSE Err("ValueNotLoaded"))
    /\ UNCHANGED <<item_table, owner, owner_type, new_values, removed_values,
                   all_values, join>>
    /\ calls' = <<>>
    /\ Observe
    /\ UNCHANGED <<fkvars, loadvars, connvars, keyvars>>

\* the i-th entry save() pops from new_values
Popped(i) == new_values[Len(new_values) - i + 1].v
\* table J after insert_only of the first m popped entries for owner o
Inserted(J, o, m) ==
    [r \in Rows |-> J[r] + Cardinality({i \in 1..m : r = <<o, Popped(i)>>})]
\* table J after delete_where(has IN keys)
DeletedHas(J, keys) == [r \in Rows |-> IF r[2] \in keys THEN 0 ELSE J[r]]
\* table J after delete_where(owner = o)
DeletedOwner_All(J, o) == [r \in Rows |-> 0]

DeletedOwner(J, o) == [r \in Rows |-> IF r[1] = o THEN 0 ELSE J[r]]
InsertCalls_DropLast(o, m) == [i \in 1..(m - 1) |-> InsertCall(o, Popped(i))]

InsertCalls(o, m) == [i \in 1..m |-> InsertCall(o, Popped(i))]

\* Many::save.  f = 0: every backend call succeeds; 1 <= f <= n: the f-th
\* insert_only returns an error; f = n + 1: delete_where returns an error
Save_KeepAdds(f) ==
    LET n == Len(new_values) IN
    /\ IF ~IsSome(owner)
       THEN /\ f = 0
            /\ ret' = Returned("save", 0, "", Err("NotInitialized"))
            /\ calls' = <<>>
            /\ UNCHANGED <<new_values, removed_values, join>>
       ELSE LET o == Unwrap(owner)
                J == join[item_table]
            IN
            IF f = 0
            THEN /\ \A r \in Rows : Inserted(J, o, n)[r] <= MaxDup
                 /\ join' = [join EXCEPT ![item_table] =
                                DeletedHas(Inserted(J, o, n), RemovedKeys)]
                 /\ new_values' = new_values
                 /\ removed_values' = <<>>
                 /\ calls' = InsertCalls(o, n) \o
                             (IF removed_values # <<>> THEN <<DeleteHasCall>> ELSE <<>>)
                 /\ ret' = Returned("save", 0, "", Ok(<<>>))
            ELSE IF f <= n
            THEN /\ \A r \in Rows : Inserted(J, o, f - 1)[r] <= MaxDup
                 /\ join' = [join EXCEPT ![item_table] = Inserted(J, o, f - 1)]
                 /\ new_values' = SubSeq(new_values, 1, n - f)
                 /\ UNCHANGED removed_values
                 /\ calls' = InsertCalls(o, f)
                 /\ ret' = Returned("save", 0, "", Err("BackendError"))
            ELSE /\ removed_values # <<>>
                 /\ \A r \in Rows : Inserted(J, o, n)[r] <= MaxDup
                 /\ join' = [join EXCEPT ![item_table] = Inserted(J, o, n)]
                 /\ new_values' = <<>>
                 /\ removed_values' = <<>>
                 /\ calls' = InsertCalls(o, n) \o <<DeleteHasCall>>
                 /\ ret' = Returned("save", 0, "", Err("BackendError"))
    /\ UNCHANGED <<item_table, owner, owner_type, all_values>>
    /\ Observe
    /\ UNCHANGED <<fkvars, loadvars, connvars, keyvars>>

Save(f) ==
    LET n == Len(new_values) IN
    /\ IF ~IsSome(owner)
       THEN /\ f = 0
            /\ ret' = Returned("save", 0, "", Err("NotInitialized"))
            /\ calls' = <<>>
            /\ UNCHANGED <<new_values, removed_values, join>>
       ELSE LET o == Unwrap(owner)
                J == join[item_table]
            IN
            IF f = 0
            THEN /\ \A r \in Rows : Inserted(J, o, n)[r] <= MaxDup
                 /\ join' = [join EXCEPT ![item_table] =
                                DeletedHas(Inserted(J, o, n), RemovedKeys)]
                 /\ new_values' = <<>>
                 /\ removed_values' = <<>>
                 /\ calls' = InsertCalls(o, n) \o
                             (IF removed_values # <<>> THEN <<DeleteHasCall>> ELSE <<>>)
                 /\ ret' = Returned("save", 0, "", Ok(<<>>))
            ELSE IF f <= n
            THEN /\ \A r \in Rows : Inserted(J, o, f - 1)[r] <= MaxDup
                 /\ join' = [join EXCEPT ![item_table] = Inserted(J, o, f - 1)]
                 /\ new_values' = SubSeq(new_values, 1, n - f)
                 /\ UNCHANGED removed_values
                 /\ calls' = InsertCalls(o, f)
                 /\ ret' = Returned("save", 0, "", Err("BackendError"))
            ELSE /\ removed_values # <<>>
                 /\ \A r \in Rows : Inserted(J, o, n)[r] <= MaxDup
                 /\ join' = [join EXCEPT ![item_table] = Inserted(J, o, n)]
                 /\ new_values' = <<>>
                 /\ removed_values' = <<>>
                 /\ calls' = InsertCalls(o, n) \o <<DeleteHasCall>>
                 /\ ret' = Returned("save", 0, "", Err("BackendError"))
    /\ UNCHANGED <<item_table, owner, owner_type, all_values>>
    /\ Observe
    /\ UNCHANGED <<fkvars, loadvars, connvars, keyvars>>

\* Many::delete; fail: delete_where returns an error
Delete_ClearFirst(fail) ==
    /\ IF ~IsSome(owner)
       THEN /\ ~fail
            /\ ret' = Returned("delete", 0, "", Err("NotInitialized"))
            /\ calls' = <<>>
            /\ new_values' = <<>>
            /\ removed_values' = <<>>
            /\ UNCHANGED <<all_values, join>>
       ELSE /\ calls' = <<DeleteOwnerCall(Unwrap(owner))>>
            /\ IF fail
               THEN /\ ret' = Returned("delete", 0, "", Err("BackendError"))
                    /\ UNCHANGED <<new_values, removed_values, all_values, join>>
               ELSE /\ join' = [join EXCEPT ![item_table] =
                                   DeletedOwner(@, Unwrap(owner))]
                    /\ new_values' = <<>>
                    /\ removed_values' = <<>>
                    /\ all_values' = None
                    /\ ret' = Returned("delete", 0, "", Ok(<<>>))
    /\ UNCHANGED <<item_table, owner, owner_type>>
    /\ Observe
    /\ UNCHANGED <<fkvars, loadvars, connvars, keyvars>>

Delete(fail) ==
    /\ IF ~IsSome(owner)
       THEN /\ ~fail
            /\ ret' = Returned("delete", 0, "", Err("NotInitialized"))
            /\ calls' = <<>>
            /\ UNCHANGED <<new_values, removed_values, all_values, join>>
       ELSE /\ calls' = <<DeleteOwnerCall(Unwrap(owner))>>
            /\ IF fail
               THEN /\ ret' = Returned("delete", 0, "", Err("BackendError"))
                    /\ UNCHANGED <<new_values, removed_values, all_values, join>>
               ELSE /\ join' = [join EXCEPT ![item_table] =
                                   DeletedOwner(@, Unwrap(owner))]
                    /\ new_values' = <<>>
                    /\ removed_values' = <<>>
                    /\ all_values' = None
                    /\ ret' = Returned("delete", 0, "", Ok(<<>>))
    /\ UNCHANGED <<item_table, owner, owner_type>>
    /\ Observe
    /\ UNCHANGED <<fkvars, loadvars, connvars, keyvars>>

\* what load and load_ordered return when query() fails with NotInitialized
load_unbound_Propagate == Err("NotInitialized")
load_unbound == Ok(<<>>)

\* the closure of load_query: the values it can compute when both queries
\* succeed, the join members followed by the stored pending additions
load_query_vals_NoMerge(ord) ==
    QueryLoad(Members(item_table, Unwrap(owner)), ord)

load_query_vals_Filtered(ord) ==
    {a \o b : a \in QueryLoad(Members(item_table, Unwrap(owner)) \ RemovedKeys, ord),
              b \in IF new_values = <<>> THEN {<<>>}
                    ELSE QueryLoad(NewStored \ RemovedKeys, "")}

load_query_vals(ord) ==
    {a \o b : a \in QueryLoad(Members(item_table, Unwrap(owner)), ord),
              b \in IF new_values = <<>> THEN {<<>>} ELSE QueryLoad(NewStored, "")}

\* Many::load (ord = "") and Many::load_ordered (ord = "Asc", "Desc").
\* f = 0: every query succeeds; f = 1, 2: the f-th query returns an error
Load_CacheError(ord, f) ==
    LET op == IF ord = "" THEN "load" ELSE "load_ordered" IN
    /\ IF ~IsSome(owner)
       THEN /\ f = 0
            /\ ret' = Returned(op, 0, ord, load_unbound)
            /\ calls' = <<>>
            /\ UNCHANGED all_values
       ELSE IF IsSome(all_values)
       THEN /\ f = 0
            /\ ret' = Returned(op, 0, ord, Ok(Unwrap(all_values)))
            /\ calls' = <<>>
            /\ UNCHANGED all_values
       ELSE IF f = 0
       THEN /\ \E vals \in load_query_vals(ord) :
                 /\ all_values' = Some(vals)
                 /\ ret' = Returned(op, 0, ord, Ok(vals))
            /\ calls' = <<QueryJoinCall(Unwrap(owner))>> \o
                        (IF new_values # <<>> THEN <<QueryNewCall>> ELSE <<>>)
       ELSE /\ f = 2 => new_values # <<>>
            /\ ret' = Returned(op, 0, ord, Err("BackendError"))
            /\ calls' = IF f = 1 THEN <<QueryJoinCall(Unwrap(owner))>>
                        ELSE <<QueryJoinCall(Unwrap(owner)), QueryNewCall>>
            /\ all_values' = Some(<<>>)
    /\ UNCHANGED <<item_table, owner, owner_type, new_values, removed_values, join>>
    /\ Observe
    /\ UNCHANGED <<fkvars, loadvars, connvars, keyvars>>

Load(ord, f) ==
    LET op == IF ord = "" THEN "load" ELSE "load_ordered" IN
    /\ IF ~IsSome(owner)
       THEN /\ f = 0
            /\ ret' = Returned(op, 0, ord, load_unbound)
            /\ calls' = <<>>
            /\ UNCHANGED all_values
       ELSE IF IsSome(all_values)
       THEN /\ f = 0
            /\ ret' = Returned(op, 0, ord, Ok(Unwrap(all_values)))
            /\ calls' = <<>>
            /\ UNCHANGED all_values
       ELSE IF f = 0
       THEN /\ \E vals \in load_query_vals(ord) :
                 /\ all_values' = Some(vals)
                 /\ ret' = Returned(op, 0, ord, Ok(vals))
            /\ calls' = <<QueryJoinCall(Unwrap(owner))>> \o
                        (IF new_values # <<>> THEN <<QueryNewCall>> ELSE <<>>)
       ELSE /\ f = 2 => new_values # <<>>
            /\ ret' = Returned(op, 0, ord, Err("BackendError"))
            /\ calls' = IF f = 1 THEN <<QueryJoinCall(Unwrap(owner))>>
                        ELSE <<QueryJoinCall(Unwrap(owner)), QueryNewCall>>
            /\ UNCHANGED all_values
    /\ UNCHANGED <<item_table, owner, owner_type, new_values, removed_values, join>>
    /\ Observe
    /\ UNCHANGED <<fkvars, loadvars, connvars, keyvars>>

\* the SQLTYPE of T::PKType, the type of the keys of the member entities
PKSqlType == "Int"

\* Many::columns
columns_OneType ==
    <<[name |-> "owner", ty |-> owner_type], [name |-> "has", ty |-> owner_type]>>

columns ==
    <<[name |-> "owner", ty |-> owner_type], [name |-> "has", ty |-> PKSqlType]>>

\* the ForeignKey while only the Many is exercised
FKParked ==
    /\ fk = from_pk(1)
    /\ origin = [kind |-> "from_pk", pk |-> 1, e |-> None]
    /\ pc = [c \in Callers |-> "idle"]
    /\ res = [c \in Callers |-> NoResult]
    /\ ran = [c \in Callers |-> FALSE]
    /\ overlap = [c \in Callers |-> {}]
    /\ permit = TRUE
    /\ lookups = 0
    /\ fails = 0
    /\ other = from_pk(1)
    /\ got = NoResult

ManyInit ==
    /\ FKParked
    /\ LoadParked
    /\ ConnParked
    /\ KeyParked
    /\ ManyNew
    /\ join = [t \in Tables |-> [r \in Rows |-> IF r \in InitialRows THEN 1 ELSE 0]]
    /\ ret = Returned("new", 0, "", Ok(<<>>))
    /\ calls = <<>>
    /\ scen = NoScen

ManyNext ==
    \/ \E a \in InitArgs : EnsureInit(a[1], a[2], a[3])
    \/ \E k \in AllKeys : Add(k)
    \/ \E k \in ValidKeys : Remove(k)
    \/ Get
    \/ \E f \in 0..(MaxLog + 1) : Save(f)
    \/ \E fail \in BOOLEAN : Delete(fail)
    \/ \E ord \in {"", "Asc", "Desc"}, f \in 0..2 : Load(ord, f)

SpecMany == ManyInit /\ [][ManyNext]_vars

\* ------------------------------------------------------ the two caches
\* a ForeignKey built from a key and a Many, each with an empty cache cell;
\* load() of the one and load()/load_ordered() of the other fill the cells
CacheInit ==
    /\ \E k \in AllKeys :
         /\ fk = from_pk(k)
         /\ origin = [kind |-> "from_pk", pk |-> k, e |-> None]
    /\ pc = [c \in Callers |-> "idle"]
    /\ res = [c \in Callers |-> NoResult]
    /\ ran = [c \in Callers |-> FALSE]
    /\ overlap = [c \in Callers |-> {}]
    /\ permit = TRUE
    /\ lookups = 0
    /\ fails = 0
    /\ other = from_pk(1)
    /\ got = NoResult
    /\ ManyNew
    /\ join = [t \in Tables |-> [r \in Rows |-> IF r \in InitialRows THEN 1 ELSE 0]]
    /\ ret = Returned("new", 0, "", Ok(<<>>))
    /\ calls = <<>>
    /\ scen = NoScen
    /\ LoadParked
    /\ ConnParked
    /\ KeyParked

\* one task calls load() on the ForeignKey, one call after the other
CacheNext ==
    \/ LoadCall(1)
    \/ LoadAcquire(1)
    \/ LoadCompute(1)
    \/ LoadDrop(1)
    \/ \E a \in InitArgs : EnsureInit(a[1], a[2], a[3])
    \/ \E k \in AllKeys : Add(k)
    \/ \E ord \in {"", "Asc", "Desc"}, f \in 0..2 : Load(ord, f)

SpecCache == CacheInit /\ [][CacheNext]_vars

\* ------------------------------------------------------------ connection
\* a cell holding SQL NULL
NullVal == [ty |-> "Null", v |-> 0]
\* the SqlType a caller of BackendRow::get may expect
ExpectedTypes == {"Int", "Text"}
\* the VecRow values a cursor is built over
RowVals == {<<ToSql(1)>>, <<TextVal>>, <<NullVal, ToSql(2)>>}
\* Vec<VecRow> of at most MaxRows rows
RowSeqs == UNION {[1..n -> RowVals] : n \in 0..MaxRows}

\* SqlVal::is_compatible(ty, null_allowed): NULL is acceptable when the
\* caller allows it, any other value for its own type only
is_compatible(val, ty, null_allowed) ==
    IF val.ty = "Null" THEN null_allowed ELSE val.ty = ty

\* SqlVal::as_ref: the borrowed view of a value, same variant, same payload
as_ref(val) == [ty |-> val.ty, v |-> val.v]

\* an error that carries values
ErrWith(e, p) == [err |-> e, val |-> Some(p)]

\* Vec::get with a zero-based index
VecGet(s, i) == IF i < Len(s) THEN Some(s[i + 1]) ELSE None

\* Result::map(Some)
MapSome(r) == IF r.err = "ok" THEN Ok(Some(Unwrap(r.val))) ELSE r

VecRowGet_Coerce(values, i, ty) ==
    LET cell == VecGet(values, i) IN
    IF ~IsSome(cell) THEN Err("BoundsError")
    ELSE Ok([ty |-> ty, v |-> Unwrap(cell).v])

\* VecRow::get(idx, ty)
VecRowGet(values, i, ty) ==
    LET cell == VecGet(values, i) IN
    IF ~IsSome(cell) THEN Err("BoundsError")
    ELSE IF is_compatible(Unwrap(cell), ty, TRUE)
         THEN Ok(as_ref(Unwrap(cell)))
         ELSE ErrWith("CannotConvertSqlVal",
                      [expected |-> ty, found |-> Unwrap(cell)])

\* VecRow::len
VecRowLen(values) == Len(values)

\* the projection handed to mapped(): column 0 read as an Int
f(row) == VecRowGet(row, 0, "Int")

\* what a call on the connection side returned
CReturned(op, args, r) == [op |-> op, args |-> args, res |-> r]

\* VecRows::next
RowsNext ==
    /\ ~adapter
    /\ idx < MaxNext
    /\ LET r == VecGet(rows, idx) IN
         /\ idx' = idx + 1
         /\ seen' = Append(seen, r)
         /\ cret' = CReturned("next", [at |-> idx], Ok(r))
    /\ ccalls' = <<>>
    /\ UNCHANGED <<rows, adapter, failures>>
    /\ UNCHANGED <<fkvars, manyvars, loadvars, keyvars>>

\* VecRows::current
RowsCurrent ==
    /\ ~adapter
    /\ cret' = CReturned("current", [at |-> idx], VecGet(rows, idx))
    /\ ccalls' = <<>>
    /\ UNCHANGED <<rows, idx, seen, adapter, failures>>
    /\ UNCHANGED <<fkvars, manyvars, loadvars, keyvars>>

\* BackendRows::mapped: the cursor moves into the adapter
Mapped ==
    /\ ~adapter
    /\ adapter' = TRUE
    /\ cret' = CReturned("mapped", [at |-> idx], NoResult)
    /\ ccalls' = <<>>
    /\ UNCHANGED <<rows, idx, seen, failures>>
    /\ UNCHANGED <<fkvars, manyvars, loadvars, keyvars>>

\* MapDeref::next.  The adapter is generic over the cursor: cerr is a cursor
\* whose next() fails, which VecRows::next never does; the position of the
\* VecRows is left alone in that case.
MappedNext(cerr) ==
    /\ adapter
    /\ idx < MaxNext
    /\ IF cerr
       THEN /\ cret' = CReturned("mapped_next",
                                 [at |-> idx, cerr |-> TRUE, failed |-> failures],
                                 Err("cursor"))
            /\ UNCHANGED <<idx, seen, failures>>
       ELSE LET r == VecGet(rows, idx)
                out == IF IsSome(r) THEN MapSome(f(Unwrap(r))) ELSE Ok(None)
            IN
            /\ idx' = idx + 1
            /\ seen' = Append(seen, r)
            /\ failures' = IF out.err = "ok" THEN failures ELSE failures + 1
            /\ cret' = CReturned("mapped_next",
                                 [at |-> idx, cerr |-> FALSE, failed |-> failures],
                                 out)
    /\ ccalls' = <<>>
    /\ UNCHANGED <<rows, adapter>>
    /\ UNCHANGED <<fkvars, manyvars, loadvars, keyvars>>

\* BackendRow::get on row i of the cursor's rows
RowGet(i, j, ty) ==
    /\ i \in 1..Len(rows)
    /\ cret' = CReturned("get", [row |-> i, idx |-> j, ty |-> ty],
                         VecRowGet(rows[i], j, ty))
    /\ ccalls' = <<>>
    /\ UNCHANGED <<rows, idx, seen, adapter, failures>>
    /\ UNCHANGED <<fkvars, manyvars, loadvars, keyvars>>

\* BoolExpr::Eq(pkcol, Expr::Val(pk))
BoolExprEq(col, val) == [col |-> col, eq |-> val]

\* what delete_where can report: a number of deleted rows or a failure
DeleteWhereOutcomes == {Ok(0), Ok(1), Err("backend")}
\* the two call conventions the trait is generated in
Conventions == {"sync", "async"}

DefaultDelete_CheckCount(conv, table, pkcol, k, outcome) ==
    /\ ccalls' = <<[conv |-> conv, op |-> "delete_where", table |-> table,
                    expr |-> BoolExprEq(pkcol, k)]>>
    /\ cret' = CReturned("delete",
                         [conv |-> conv, table |-> table, pkcol |-> pkcol,
                          pk |-> k, reported |-> outcome],
                         IF outcome = Ok(0) THEN Err("NoSuchObject")
                         ELSE IF outcome.err = "ok" THEN Ok(<<>>) ELSE outcome)
    /\ UNCHANGED <<rows, idx, seen, adapter, failures>>
    /\ UNCHANGED <<fkvars, manyvars, loadvars, keyvars>>

\* ConnectionMethods::delete, the default body, in either convention
DefaultDelete(conv, table, pkcol, k, outcome) ==
    /\ ccalls' = <<[conv |-> conv, op |-> "delete_where", table |-> table,
                    expr |-> BoolExprEq(pkcol, k)]>>
    /\ cret' = CReturned("delete",
                         [conv |-> conv, table |-> table, pkcol |-> pkcol,
                          pk |-> k, reported |-> outcome],
                         IF outcome.err = "ok" THEN Ok(<<>>) ELSE outcome)
    /\ UNCHANGED <<rows, idx, seen, adapter, failures>>
    /\ UNCHANGED <<fkvars, manyvars, loadvars, keyvars>>

\* VecRows::new over any rows
ConnInit ==
    /\ FKParked
    /\ ManyParked
    /\ LoadParked
    /\ rows \in RowSeqs
    /\ idx = 0
    /\ seen = <<>>
    /\ adapter = FALSE
    /\ failures = 0
    /\ cret = CReturned("new", <<>>, NoResult)
    /\ ccalls = <<>>
    /\ KeyParked

ConnNext ==
    \/ RowsNext
    \/ RowsCurrent
    \/ Mapped
    \/ \E cerr \in BOOLEAN : MappedNext(cerr)
    \/ \E i \in 1..MaxRows, j \in 0..2, ty \in ExpectedTypes : RowGet(i, j, ty)
    \/ \E conv \in Conventions, t \in Tables, k \in {ToSql(1), ToSql(2)},
          outcome \in DeleteWhereOutcomes :
            DefaultDelete(conv, t, "id", k, outcome)

SpecConn == ConnInit /\ [][ConnNext]_vars

\* --------------------------------------------- concurrent callers of load
\* the directions a caller can ask for: load() or load_ordered(order)
Orders == {"", "Asc", "Desc"}
manyfixed == <<item_table, owner, owner_type, new_values, removed_values,
               join, ret, calls, scen>>

\* Many::load / load_ordered entered by caller c.  An unbound Many returns
\* no values without touching the cell; an initialized cell returns its
\* value at once; otherwise the caller goes on to acquire the permit.
ManyLoadCall(c, ord) ==
    /\ lpc[c] = "idle"
    /\ IF ~IsSome(owner)
       THEN /\ lpc' = [lpc EXCEPT ![c] = "done"]
            /\ lres' = [lres EXCEPT ![c] = load_unbound]
            /\ UNCHANGED lord
       ELSE IF IsSome(all_values)
       THEN /\ lpc' = [lpc EXCEPT ![c] = "done"]
            /\ lres' = [lres EXCEPT ![c] = Ok(Unwrap(all_values))]
            /\ UNCHANGED lord
       ELSE /\ lpc' = [lpc EXCEPT ![c] = "waiting"]
            /\ lord' = [lord EXCEPT ![c] = ord]
            /\ UNCHANGED lres
    /\ UNCHANGED <<lpermit, lvals, all_values>>
    /\ UNCHANGED <<fkvars, manyfixed, connvars, keyvars>>

ManyLoadAcquire_NoPermit(c) ==
    /\ lpc[c] = "waiting"
    /\ ~IsSome(all_values)
    /\ lpc' = [lpc EXCEPT ![c] = "query1"]
    /\ lpermit' = FALSE
    /\ UNCHANGED <<lres, lord, lvals, all_values>>
    /\ UNCHANGED <<fkvars, manyfixed, connvars, keyvars>>

\* the semaphore hands the permit to a waiting caller, which runs its
\* closure up to the await of the join query
ManyLoadAcquire(c) ==
    /\ lpc[c] = "waiting"
    /\ lpermit
    /\ ~IsSome(all_values)
    /\ lpc' = [lpc EXCEPT ![c] = "query1"]
    /\ lpermit' = FALSE
    /\ UNCHANGED <<lres, lord, lvals, all_values>>
    /\ UNCHANGED <<fkvars, manyfixed, connvars, keyvars>>

\* the join query answers the caller holding the permit: an error ends the
\* closure and releases the permit; with an empty pending-add log the rows
\* are stored in the cell; otherwise the closure goes on to the second query
ManyLoadQuery1(c, fail) ==
    /\ lpc[c] = "query1"
    /\ IF fail
       THEN /\ lpc' = [lpc EXCEPT ![c] = "done"]
            /\ lres' = [lres EXCEPT ![c] = Err("BackendError")]
            /\ lpermit' = TRUE
            /\ UNCHANGED <<lvals, all_values>>
       ELSE \E a \in QueryLoad(Members(item_table, Unwrap(owner)), lord[c]) :
              IF new_values = <<>>
              THEN /\ all_values' = Some(a)
                   /\ lpc' = [lpc EXCEPT ![c] = "done"]
                   /\ lres' = [lres EXCEPT ![c] = Ok(a)]
                   /\ UNCHANGED <<lpermit, lvals>>
              ELSE /\ lvals' = [lvals EXCEPT ![c] = a]
                   /\ lpc' = [lpc EXCEPT ![c] = "query2"]
                   /\ UNCHANGED <<lres, lpermit, all_values>>
    /\ UNCHANGED lord
    /\ UNCHANGED <<fkvars, manyfixed, connvars, keyvars>>

\* the query for the pending additions answers: its rows are appended and
\* the whole is stored in the cell, or its error ends the closure
ManyLoadQuery2(c, fail) ==
    /\ lpc[c] = "query2"
    /\ IF fail
       THEN /\ lres' = [lres EXCEPT ![c] = Err("BackendError")]
            /\ lpermit' = TRUE
            /\ UNCHANGED all_values
       ELSE \E b \in QueryLoad(NewStored, "") :
              /\ all_values' = Some(lvals[c] \o b)
              /\ lres' = [lres EXCEPT ![c] = Ok(lvals[c] \o b)]
              /\ UNCHANGED lpermit
    /\ lpc' = [lpc EXCEPT ![c] = "done"]
    /\ lvals' = [lvals EXCEPT ![c] = <<>>]
    /\ UNCHANGED lord
    /\ UNCHANGED <<fkvars, manyfixed, connvars, keyvars>>

\* the semaphore was closed by a successful initialization: a waiting
\* caller is woken and returns the cached value
ManyLoadWake(c) ==
    /\ lpc[c] = "waiting"
    /\ IsSome(all_values)
    /\ lpc' = [lpc EXCEPT ![c] = "done"]
    /\ lres' = [lres EXCEPT ![c] = Ok(Unwrap(all_values))]
    /\ UNCHANGED <<lord, lpermit, lvals, all_values>>
    /\ UNCHANGED <<fkvars, manyfixed, connvars, keyvars>>

\* the caller drops the Result of its load()
ManyLoadDrop(c) ==
    /\ lpc[c] = "done"
    /\ lpc' = [lpc EXCEPT ![c] = "idle"]
    /\ lres' = [lres EXCEPT ![c] = NoResult]
    /\ lord' = [lord EXCEPT ![c] = ""]
    /\ UNCHANGED <<lpermit, lvals, all_values>>
    /\ UNCHANGED <<fkvars, manyfixed, connvars, keyvars>>

\* the two kinds of cache cell, each shared by concurrent callers: either a
\* ForeignKey built from a key, next to a Many that was never bound, or a
\* Many bound to an owner, with or without a pending addition, next to a
\* ForeignKey built from its entity
CellsInit ==
    /\ pc = [c \in Callers |-> "idle"]
    /\ res = [c \in Callers |-> NoResult]
    /\ ran = [c \in Callers |-> FALSE]
    /\ overlap = [c \in Callers |-> {}]
    /\ permit = TRUE
    /\ lookups = 0
    /\ fails = 0
    /\ other = from_pk(1)
    /\ got = NoResult
    /\ LoadParked
    /\ ConnParked
    /\ KeyParked
    /\ ret = Returned("new", 0, "", Ok(<<>>))
    /\ calls = <<>>
    /\ scen = NoScen
    /\ removed_values = <<>>
    /\ all_values = None
    /\ \/ /\ \E k \in AllKeys :
               /\ fk = from_pk(k)
               /\ origin = [kind |-> "from_pk", pk |-> k, e |-> None]
          /\ item_table = "not_initialized"
          /\ owner = None
          /\ owner_type = "Int"
          /\ new_values = <<>>
          /\ join = [t \in Tables |-> EmptyTable]
       \/ /\ fk = from_entity(Entity(1))
          /\ origin = [kind |-> "from_entity", pk |-> 1, e |-> Some(Entity(1))]
          /\ \E a \in InitArgs :
               /\ item_table = a[1]
               /\ owner = Some(a[2])
               /\ owner_type = a[3]
          /\ new_values \in {<<>>, <<ToSql(1)>>}
          /\ join = [t \in Tables |->
                       [r \in Rows |-> IF r[1] = 7 THEN 1 ELSE 0]]

CellsNext ==
    \/ \E c \in Callers : LoadCall(c)
    \/ \E c \in Callers : LoadAcquire(c)
    \/ \E c \in Callers : LoadWake(c)
    \/ \E c \in Callers : LoadCompute(c)
    \/ \E c \in Callers : LoadDrop(c)
    \/ \E c \in Callers, ord \in Orders : ManyLoadCall(c, ord)
    \/ \E c \in Callers : ManyLoadAcquire(c)
    \/ \E c \in Callers, fail \in BOOLEAN : ManyLoadQuery1(c, fail)
    \/ \E c \in Callers, fail \in BOOLEAN : ManyLoadQuery2(c, fail)
    \/ \E c \in Callers : ManyLoadWake(c)
    \/ \E c \in Callers : ManyLoadDrop(c)

SpecCells == CellsInit /\ [][CellsNext]_vars

\* ------------------------------------------------- key side of ForeignKey
\* what a call on the key side returned: the operation, the reference as it
\* was when the call was made, the result
KReturned(op, was, r) == [op |-> op, was |-> was, res |-> r]

\* Serialize for ForeignKey: the fields written to the struct, in order; a
\* cell that is empty writes no field
serialize(x) ==
    (IF IsSome(x.val) THEN <<[name |-> "val", value |-> Unwrap(x.val)]>> ELSE <<>>)
    \o (IF IsSome(x.valpk) THEN <<[name |-> "valpk", value |-> Unwrap(x.valpk)]>>
        ELSE <<>>)

\* the value visit_map reads for a field name, if the map has the field
FieldOf(m, name) ==
    LET I == {i \in DOMAIN m : m[i].name = name} IN
    IF I = {} THEN None ELSE Some(m[CHOOSE i \in I : TRUE].value)

\* Deserialize for ForeignKey: visit_map over the fields of the map
deserialize(m) ==
    IF \E i, j \in DOMAIN m : i # j /\ m[i].name = m[j].name
    THEN Err("duplicate_field")
    ELSE Ok(visit_map(FieldOf(m, "val"), FieldOf(m, "valpk")))

KeyPk_Memoize ==
    /\ kret' = KReturned("pk", fk, pk(fk))
    /\ fk' = IF IsSome(ensure_valpk(fk)) THEN Unwrap(ensure_valpk(fk)) ELSE fk
    /\ UNCHANGED <<origin, pc, res, ran, overlap, permit, lookups, fails, other, got>>
    /\ UNCHANGED <<manyvars, loadvars, connvars>>

\* pk(): reads the val cell, else the valpk cell
KeyPk ==
    /\ kret' = KReturned("pk", fk, pk(fk))
    /\ UNCHANGED fkvars
    /\ UNCHANGED <<manyvars, loadvars, connvars>>

\* eq(): the reference compared with another one
KeyEq ==
    /\ kret' = KReturned("eq", fk, eq(fk, other))
    /\ UNCHANGED fkvars
    /\ UNCHANGED <<manyvars, loadvars, connvars>>

\* the reference serialized and the output deserialized
KeySerde ==
    /\ kret' = KReturned("serde", fk, deserialize(serialize(fk)))
    /\ UNCHANGED fkvars
    /\ UNCHANGED <<manyvars, loadvars, connvars>>

\* a reference built in any way, used by one task
KeyInit ==
    /\ ManyParked
    /\ LoadParked
    /\ ConnParked
    /\ KeyParked
    /\ \E c \in Constructed :
         /\ fk = c.f
         /\ origin = [kind |-> c.kind, pk |-> c.pk, e |-> c.e]
    /\ pc = [c \in Callers |-> "idle"]
    /\ res = [c \in Callers |-> NoResult]
    /\ ran = [c \in Callers |-> FALSE]
    /\ overlap = [c \in Callers |-> {}]
    /\ permit = TRUE
    /\ lookups = 0
    /\ fails = 0
    /\ other \in Others
    /\ got = NoResult

KeyNext ==
    \/ LoadCall(1)
    \/ LoadAcquire(1)
    \/ LoadCompute(1)
    \/ LoadDrop(1)
    \/ FKToSql
    \/ FKClone
    \/ KeyPk
    \/ KeyEq
    \/ KeySerde

SpecKey == KeyInit /\ [][KeyNext]_vars

\* ------------------------------------------------- claims on ForeignKey
\* two callers whose load() calls were in flight together and have returned
Concurrent(c, d) ==
    c # d /\ d \in overlap[c] /\ pc[c] = "done" /\ pc[d] = "done"

C2_NeverNeither == IsSome(fk.val) \/ IsSome(fk.valpk)

\* C9: for a reference built by from_pk(k), as long as no lookup failed,
\* exactly one lookup has been issued once a load() is under way or has
\* returned, none before, and never a second one; pk() returns k throughout.
C9_OneLookup ==
    origin.kind = "from_pk" =>
        /\ pk(fk) = Ok(origin.pk)
        /\ fails = 0 =>
              lookups = (IF IsSome(fk.val) \/ (\E c \in Callers : pc[c] = "computing")
                         THEN 1 ELSE 0)

\* a later load() of a from_pk reference returned the cached entity without
\* a lookup of its own
C9_Witness ==
    /\ origin.kind = "from_pk"
    /\ fails = 0 /\ lookups = 1
    /\ \E c \in Callers :
         pc[c] = "done" /\ ~ran[c] /\ overlap[c] = {} /\ res[c] = Ok(Entity(origin.pk))

\* C10: for a reference built from an owned entity e, pk() returns e's key,
\* no load() ever waits or issues a lookup, and every load() returns e.
C10_FromEntity ==
    origin.kind = "from_entity" =>
        /\ pk(fk) = Ok(Unwrap(origin.e).pk)
        /\ lookups = 0
        /\ \A c \in Callers :
             /\ pc[c] \in {"idle", "done"}
             /\ pc[c] = "done" => res[c] = Ok(Unwrap(origin.e))

\* both callers have a returned load() of a reference built from an entity
\* that is not a row of the table
C10_Witness ==
    /\ origin.kind = "from_entity"
    /\ Unwrap(origin.e).body = "mem"
    /\ \A c \in Callers : pc[c] = "done" /\ IsOk(res[c])

\* C11: get() returns ValueNotLoaded exactly when the val cell is empty and
\* the cached entity otherwise, without a lookup and without changing the
\* reference; after a successful load() get() is the entity load() returned;
\* load() returns an error only when its T::get lookup failed or the stored
\* key did not convert.
C11_GetAndResolve ==
    /\ [](/\ \A c \in Callers :
               /\ (pc[c] = "done" /\ IsOk(res[c])) => get(fk) = res[c]
               /\ (pc[c] = "done" /\ res[c].err \notin {"ok", "panic"}) =>
                     \/ ran[c] /\ res[c].err \in {"NoSuchObject", "BackendError"}
                     \/ /\ res[c].err = "CannotConvertSqlVal"
                        /\ IsSome(fk.valpk)
                        /\ ~IsOk(FromSql(Unwrap(fk.valpk)))
          /\ IsOk(got) => got.val = fk.val)
    /\ [][(got' # got /\ got' # NoResult) =>
             /\ (got'.err = "ValueNotLoaded") <=> ~IsSome(fk.val)
             /\ IsSome(fk.val) => got' = Ok(Unwrap(fk.val))
             /\ UNCHANGED <<fk, pc, res, permit, lookups, fails>>]_vars

\* get() returned the entity that a load() with a lookup of its own returned
C11_Witness ==
    \E c \in Callers :
        /\ pc[c] = "done" /\ ran[c] /\ IsOk(res[c])
        /\ got = res[c]
        /\ origin.kind = "from_pk"

\* C12: two references whose keys can be read compare equal exactly when
\* the keys are equal, in either order, and a load() that fills the val cell
\* leaves the outcome of the comparison as it was.
C12_EqByKey ==
    /\ []((IsOk(pk(fk)) /\ IsOk(pk(other))) =>
             /\ eq(fk, other) = Ok(Unwrap(pk(fk).val) = Unwrap(pk(other).val))
             /\ eq(other, fk) = eq(fk, other))
    /\ [][(~IsSome(fk.val) /\ IsSome(fk'.val)) =>
             /\ eq(fk', other') = eq(fk, other)
             /\ eq(other', fk') = eq(other, fk)]_vars

\* a reference built from a key and resolved by a lookup equals a reference
\* that holds only the entity
C12_Witness ==
    /\ origin.kind = "from_pk" /\ lookups = 1
    /\ IsSome(fk.val) /\ IsSome(fk.valpk)
    /\ IsSome(other.val) /\ ~IsSome(other.valpk)
    /\ eq(fk, other) = Ok(TRUE)

\* ------------------------------------------------------- claims on Many
\* C13: a failed cache computation is not cached.  The T::get error is
\* returned to the caller that ran the lookup, the val cell stays empty and
\* the permit is free again, so that a later load() runs its own lookup; a
\* failed load()/load_ordered() of a Many returns the error and leaves
\* all_values empty, and the load that follows queries again and caches
\* what it returns.
C13_FailureNotCached ==
    /\ [](/\ (ret.op \in {"load", "load_ordered"} /\ ~IsOk(ret.res)) =>
                /\ ret.res.err = "BackendError"
                /\ ~IsSome(all_values)
                /\ calls # <<>>
          /\ scen.c13 = 2 =>
                /\ calls # <<>>
                /\ IsOk(ret.res) => all_values = ret.res.val
          /\ (~IsSome(fk.val) /\ \A c \in Callers : pc[c] # "computing") => permit
          /\ \A c \in Callers :
                (pc[c] = "done" /\ ~IsOk(res[c])) =>
                    ran[c] /\ res[c].err \in {"NoSuchObject", "BackendError"})
    /\ [][fails' > fails =>
             /\ ~IsSome(fk'.val)
             /\ permit'
             /\ \E c \in Callers :
                   /\ pc[c] = "computing" /\ pc'[c] = "done"
                   /\ res'[c].err \in {"NoSuchObject", "BackendError"}]_vars

\* after a failed lookup a later load() of the ForeignKey ran its own lookup
\* and returned the entity, and after a failed load() of the Many the next
\* load() returned the members
C13_Witness ==
    /\ fails >= 1 /\ IsSome(fk.val)
    /\ \E c \in Callers : pc[c] = "done" /\ ran[c] /\ IsOk(res[c])
    /\ scen.c13 = 2 /\ IsOk(ret.res) /\ ret.res.val # Some(<<>>)

\* the members the last load() returned
Loaded == SetOf(Unwrap(ret.res.val))
OwnMembers == {Entity(k) : k \in Members(item_table, Unwrap(owner))}

\* C3 (as stated): with {A, B} persisted, after remove(A) a load() still
\* returns {A, B}; after the successful save() that follows, the next load()
\* returns the members of the join table, without A.
C3_RemoveThenPersist ==
    /\ scen.c3.stage = 2 =>
          Loaded = OwnMembers /\ Entity(scen.c3.a) \in Loaded
    /\ scen.c3.stage = 4 =>
          Loaded = OwnMembers /\ Entity(scen.c3.a) \notin Loaded

\* C4 (as stated): a save() that fails on a backend error leaves the
\* pending-add log and the pending-remove log as they were.
C4_FailedSaveKeepsLogs ==
    [][(ret'.op = "save" /\ ret'.res.err = "BackendError")
          => UNCHANGED <<new_values, removed_values>>]_vars

\* C5: after ensure_init bound an owner without join rows, add(A) and add(B),
\* load() returns exactly A and B while the owner has no join row; after the
\* successful save() the owner's rows are exactly (owner, A) and (owner, B),
\* once each, and load() returns exactly A and B again.
C5_AddThenPersist ==
    LET ab == {Entity(scen.c5.a), Entity(scen.c5.b)}
        ownrows == \A k \in ValidKeys :
                   join[item_table][<<Unwrap(owner), k>>] =
                      (IF k \in {scen.c5.a, scen.c5.b} THEN 1 ELSE 0)
    IN
    /\ scen.c5.stage = 4 =>
          /\ Loaded = ab /\ Len(Unwrap(ret.res.val)) = 2
          /\ Members(item_table, Unwrap(owner)) = {}
    /\ scen.c5.stage = 5 => ownrows
    /\ scen.c5.stage = 6 =>
          /\ Loaded = ab /\ Len(Unwrap(ret.res.val)) = 2
          /\ ownrows

\* the scenario ran to its end: load, save, load after the two adds
C5_Witness ==
    /\ scen.c5.stage = 6
    /\ ret.op = "load"
    /\ Cardinality(Members(item_table, Unwrap(owner))) = 2

\* C6: a load() of an initialized Many returns every stored member that has
\* a join row for the owner, also when its key is in the pending-remove log.
C6_LoadIgnoresRemoved ==
    (ret.op = "load" /\ IsOk(ret.res) /\ IsSome(owner)) =>
        \A k \in RemovedKeys \cap Members(item_table, Unwrap(owner)) \cap Stored :
            Entity(k) \in Loaded

\* a load() returned a member whose key is in the pending-remove log
C6_Witness ==
    /\ ret.op = "load" /\ IsOk(ret.res) /\ IsSome(owner)
    /\ \E k \in RemovedKeys \cap Members(item_table, Unwrap(owner)) :
          Entity(k) \in Loaded

\* C7: add() of an entity whose key is not assigned returns ValueNotSaved
\* and leaves both pending logs and the cached result set as they were.
C7_AddUnsaved ==
    [][(ret'.op = "add" /\ ret'.arg = Unassigned)
          => /\ ret'.res = Err("ValueNotSaved")
             /\ UNCHANGED <<new_values, removed_values, all_values>>]_vars

\* add() of an unsaved entity was refused while both logs and the cache
\* were populated
C7_Witness ==
    /\ ret.op = "add" /\ ret.arg = Unassigned
    /\ ret.res = Err("ValueNotSaved")
    /\ new_values # <<>> /\ removed_values # <<>> /\ IsSome(all_values)

C14_InitOnce ==
    [][(IsSome(owner) /\ ret'.op = "ensure_init")
          => /\ IsOk(ret'.res)
             /\ UNCHANGED <<item_table, owner, owner_type, new_values,
                            removed_values, all_values>>]_vars

\* ensure_init was called with another table, owner and type on a bound
\* Many that has pending logs and a cached result set
C14_Witness ==
    /\ ret.op = "ensure_init" /\ IsSome(owner)
    /\ ret.arg # Unwrap(owner)
    /\ new_values # <<>> /\ removed_values # <<>> /\ IsSome(all_values)

\* C15: an add() that returns Ok appends the key of the entity to
\* new_values and nothing else, leaves removed_values, item_table, owner,
\* owner_type and the join tables as they were, issues no call on the
\* connection and empties all_values; while all_values is empty and no load
\* or load_ordered is called it stays empty and get() returns ValueNotLoaded.
C15_AddFrame ==
    [][/\ (ret'.op = "add" /\ IsOk(ret'.res)) =>
             /\ new_values' = Append(new_values, ToSql(ret'.arg))
             /\ UNCHANGED <<removed_values, item_table, owner, owner_type, join>>
             /\ calls' = <<>>
             /\ all_values' = None
       /\ (~IsSome(all_values) /\ ret'.op \notin {"load", "load_ordered"}) =>
             /\ all_values' = None
             /\ ret'.op = "get" => ret'.res = Err("ValueNotLoaded")]_vars

\* add() of a second key returned Ok on a bound Many with a pending remove
C15_Witness ==
    /\ ret.op = "add" /\ IsOk(ret.res) /\ IsSome(owner)
    /\ Len(new_values) = 2 /\ new_values[2] = ToSql(ret.arg)
    /\ new_values[1] # new_values[2]
    /\ removed_values # <<>>
    /\ ~IsSome(all_values)

\* C16: remove() returns Ok and appends the key of the entity to
\* removed_values whether the key has a join row, is in new_values or
\* neither; it leaves new_values, the identity and the join tables as they
\* were, issues no call on the connection and empties all_values.
C16_RemoveFrame ==
    [][ret'.op = "remove" =>
          /\ IsOk(ret'.res)
          /\ removed_values' = Append(removed_values, ToSql(ret'.arg))
          /\ UNCHANGED <<new_values, item_table, owner, owner_type, join>>
          /\ calls' = <<>>
          /\ all_values' = None]_vars

\* remove() of a key that has no join row for the owner and is not in
\* new_values returned on a bound Many with a pending add
C16_Witness ==
    /\ ret.op = "remove" /\ IsOk(ret.res) /\ IsSome(owner)
    /\ ret.arg \notin Members(item_table, Unwrap(owner))
    /\ ToSql(ret.arg) \notin SetOf(new_values)
    /\ new_values # <<>>
    /\ removed_values[Len(removed_values)] = ToSql(ret.arg)

C18_LoadDeduplicated ==
    (ret.op = "load" /\ IsOk(ret.res) /\ IsSome(owner)) =>
        /\ all_values = ret.res.val
        /\ \A i, j \in DOMAIN Unwrap(ret.res.val) :
              i # j => Unwrap(ret.res.val)[i] # Unwrap(ret.res.val)[j]

\* C19 (as stated): on a bound Many, whatever was loaded before and whatever
\* the pending logs hold, load_ordered returns what load() returns from
\* then on, ordered by primary key in the direction asked for.
C19_LoadOrdered ==
    (ret.op = "load_ordered" /\ IsOk(ret.res) /\ IsSome(owner)) =>
        /\ all_values = ret.res.val
        /\ \A i, j \in DOMAIN Unwrap(ret.res.val) :
              i < j => IF ret.ord = "Asc"
                       THEN Unwrap(ret.res.val)[i].pk <= Unwrap(ret.res.val)[j].pk
                       ELSE Unwrap(ret.res.val)[i].pk >= Unwrap(ret.res.val)[j].pk

\* C20: a delete() that returns Ok on a bound Many has removed every row of
\* item_table whose owner column is the owner's key and no other row of any
\* table, and leaves new_values, removed_values and all_values empty; a
\* delete() whose delete_where fails returns the error and leaves the logs,
\* the cached result set and the tables as they were.
C20_Purge ==
    [][(ret'.op = "delete" /\ IsSome(owner)) =>
          /\ calls' = <<DeleteOwnerCall(Unwrap(owner))>>
          /\ IF IsOk(ret'.res)
             THEN /\ \A t \in Tables, r \in Rows :
                        join'[t][r] = IF t = item_table /\ r[1] = Unwrap(owner)
                                      THEN 0 ELSE join[t][r]
                  /\ new_values' = <<>>
                  /\ removed_values' = <<>>
                  /\ all_values' = None
             ELSE /\ ret'.res = Err("BackendError")
                  /\ UNCHANGED <<new_values, removed_values, all_values, join>>
          /\ UNCHANGED <<item_table, owner, owner_type>>]_vars

\* delete() returned Ok and the join table still holds a row of the other
\* owner
C20_Witness ==
    /\ ret.op = "delete" /\ IsOk(ret.res) /\ IsSome(owner)
    /\ \A k \in ValidKeys : join[item_table][<<Unwrap(owner), k>>] = 0
    /\ \E r \in Rows : join[item_table][r] > 0
    /\ new_values = <<>> /\ removed_values = <<>> /\ ~IsSome(all_values)

\* C21: on a Many on which ensure_init never ran, save() and delete()
\* return NotInitialized, issue no call on the connection and leave both
\* pending logs, the cached result set and the join tables as they were.
C21_UnboundPersist ==
    [][(~IsSome(owner) /\ ret'.op \in {"save", "delete"}) =>
          /\ ret'.res = Err("NotInitialized")
          /\ calls' = <<>>
          /\ UNCHANGED <<new_values, removed_values, all_values, join,
                         item_table, owner, owner_type>>]_vars

\* delete() returned NotInitialized on an unbound Many whose logs both hold
\* entries
C21_Witness ==
    /\ ret.op = "delete" /\ ret.res = Err("NotInitialized")
    /\ ~IsSome(owner)
    /\ Len(new_values) = MaxLog /\ Len(removed_values) = MaxLog

\* C24: columns() is always the pair of the column "owner", typed with the
\* owner type (the default Int before ensure_init, the type passed to the
\* binding ensure_init afterwards), and the column "has", typed with the
\* key type of the members; only the binding ensure_init changes what
\* columns() returns.
C24_Columns ==
    /\ [](/\ Len(columns) = 2
          /\ columns[1].name = "owner" /\ columns[2].name = "has"
          /\ columns[2].ty = PKSqlType
          /\ columns[1].ty =
               IF IsSome(owner)
               THEN (CHOOSE a \in InitArgs : a[2] = Unwrap(owner))[3]
               ELSE "Int")
    /\ [][columns' # columns => (ret'.op = "ensure_init" /\ ~IsSome(owner))]_vars

\* columns() of a Many bound with the owner type BigInt, with pending logs
\* and a cached result set
C24_Witness ==
    /\ IsSome(owner) /\ columns[1].ty = "BigInt" /\ columns[2].ty = "Int"
    /\ new_values # <<>> /\ removed_values # <<>> /\ IsSome(all_values)
    /\ ret.op \in {"load", "load_ordered"}

\* C27 (as stated): a save() on a Many bound to owner o leaves every join
\* row of another owner, and every row of another table, present exactly
\* when it was present before, also when its member key is in
\* removed_values.
C27_SaveOwnRowsOnly ==
    [][(ret'.op = "save" /\ IsSome(owner)) =>
          \A t \in Tables, r \in Rows :
             (t # item_table \/ r[1] # Unwrap(owner)) =>
                 ((join'[t][r] > 0) <=> (join[t][r] > 0))]_vars

\* C28: a save() that returns Ok on a bound Many has issued one insert_only
\* of (owner, key) on item_table for each entry of new_values, and after
\* them, only when removed_values is not empty, one delete_where on the
\* column "has" with the keys of removed_values; both logs are empty when
\* it returns.
C28_SaveCalls ==
    [][(ret'.op = "save" /\ IsOk(ret'.res)) =>
          LET n == Len(new_values)
              d == IF removed_values # <<>> THEN 1 ELSE 0
          IN /\ Len(calls') = n + d
             /\ \A i \in 1..n :
                   /\ calls'[i].op = "insert_only"
                   /\ calls'[i].table = item_table
                   /\ calls'[i].vals[1] = Unwrap(owner)
             /\ \A k \in ValidKeys :
                   Cardinality({i \in 1..n : calls'[i].vals[2] = k})
                      = Cardinality({i \in 1..n : new_values[i].v = k})
             /\ d = 1 =>
                   /\ calls'[n + 1].op = "delete_where"
                   /\ calls'[n + 1].table = item_table
                   /\ calls'[n + 1].col = "has"
                   /\ calls'[n + 1].vals =
                         [i \in DOMAIN removed_values |-> removed_values[i].v]
             /\ new_values' = <<>>
             /\ removed_values' = <<>>]_vars

\* save() returned Ok after two insert_only calls followed by a
\* delete_where
C28_Witness ==
    /\ ret.op = "save" /\ IsOk(ret.res)
    /\ Len(calls) = 3
    /\ calls[1].op = "insert_only" /\ calls[2].op = "insert_only"
    /\ calls[1].vals # calls[2].vals
    /\ calls[3].op = "delete_where"

\* C29: over add, remove and save() calls that return Ok, every entry is
\* applied once: for each key the insert_only calls of a step plus the
\* entries left in new_values equal the entries that were pending plus the
\* one the step added; the delete_where of a save carries the pending
\* removes, which are pending no longer afterwards; insert_only and
\* delete_where on "has" are issued by save alone, and a save() that finds
\* both logs empty issues no call.
C29_AppliedOnce ==
    [][(ret'.op \in {"add", "remove", "save"} /\ IsOk(ret'.res)) =>
          LET ins(k) == Cardinality({i \in DOMAIN calls' :
                           calls'[i].op = "insert_only" /\ calls'[i].vals[2] = k})
              pend(s, k) == Cardinality({i \in DOMAIN s : s[i].v = k})
              dels == {i \in DOMAIN calls' : calls'[i].op = "delete_where"}
          IN /\ \A k \in ValidKeys :
                   ins(k) + pend(new_values', k) =
                      pend(new_values, k)
                        + (IF ret'.op = "add" /\ ret'.arg = k THEN 1 ELSE 0)
             /\ \A k \in ValidKeys :
                   pend(removed_values', k)
                     + Cardinality({<<i, j>> \in dels \X DOMAIN removed_values :
                                      /\ j \in DOMAIN calls'[i].vals
                                      /\ calls'[i].vals[j] = k
                                      /\ removed_values[j].v = k}) =
                      pend(removed_values, k)
                        + (IF ret'.op = "remove" /\ ret'.arg = k THEN 1 ELSE 0)
             /\ Cardinality(dels) <= 1
             /\ calls' # <<>> => ret'.op = "save"
             /\ (ret'.op = "save" /\ new_values = <<>> /\ removed_values = <<>>)
                   => calls' = <<>>]_vars

\* a save() with both logs empty issued no call, after earlier saves have
\* inserted the rows of two members of an owner that had none
C29_Witness ==
    /\ ret.op = "save" /\ IsOk(ret.res) /\ calls = <<>>
    /\ owner = Some(8)
    /\ \A k \in ValidKeys : join[item_table][<<8, k>>] = 1

\* ------------------------------------------------- claims on connection
\* a result that carries an item
Yields(r) == r.err = "ok" /\ IsSome(Unwrap(r.val))

\* C22: successive next() calls on a VecRows over n rows return row 0, ...,
\* row n-1 once each and end-of-data on every later call; current() returns
\* what next() returned most recently and leaves the cursor where it is.
C22_Cursor ==
    /\ \A i \in 1..Len(seen) : seen[i] = VecGet(rows, i - 1)
    /\ cret.op = "next" => cret.res = Ok(seen[Len(seen)])
    /\ cret.op = "current" =>
          /\ idx = cret.args.at
          /\ cret.res = (IF seen = <<>> THEN None ELSE seen[Len(seen)])

\* C23: MapDeref::next yields f(row) for the cursor's rows in order, passes
\* a cursor error through unchanged, and yields no item once a projection
\* has failed.
C23_MapDeref ==
    cret.op = "mapped_next" =>
        IF cret.args.cerr THEN cret.res = Err("cursor")
        ELSE IF cret.args.failed > 0 THEN ~Yields(cret.res)
        ELSE cret.res = (IF cret.args.at < Len(rows)
                         THEN MapSome(f(rows[cret.args.at + 1]))
                         ELSE Ok(None))

\* C25: VecRow::get(idx, ty) returns BoundsError exactly when idx >= len();
\* otherwise CannotConvertSqlVal(ty, cell) exactly when the cell is not
\* compatible with ty; otherwise the view of the cell as it is stored.  The
\* call leaves the rows as they were.
C25_VecRowGet ==
    /\ [](cret.op = "get" =>
            LET row == rows[cret.args.row]
                j == cret.args.idx
                ty == cret.args.ty
            IN
            /\ (cret.res.err = "BoundsError") <=> (j >= VecRowLen(row))
            /\ j < VecRowLen(row) =>
                 LET cell == row[j + 1] IN
                 /\ (cret.res.err = "CannotConvertSqlVal")
                       <=> ~is_compatible(cell, ty, TRUE)
                 /\ ~is_compatible(cell, ty, TRUE) =>
                       cret.res.val = Some([expected |-> ty, found |-> cell])
                 /\ is_compatible(cell, ty, TRUE) =>
                       cret.res = Ok([ty |-> cell.ty, v |-> cell.v]))
    /\ [][cret'.op = "get" => rows' = rows]_vars

\* a cell inside the row read as Text although it holds an Int: the call
\* returned CannotConvertSqlVal
C25_Witness ==
    /\ cret.op = "get"
    /\ cret.res.err = "CannotConvertSqlVal"
    /\ cret.args.idx < VecRowLen(rows[cret.args.row])
    /\ cret.args.ty = "Text"

\* C26: the default delete(table, pkcol, pk), in the sync and the async
\* convention, issues the one call delete_where(table, pkcol = pk), returns
\* Ok(()) for every count delete_where reports and returns its error as it
\* is.
C26_DefaultDelete ==
    cret.op = "delete" =>
        /\ ccalls = <<[conv |-> cret.args.conv, op |-> "delete_where",
                       table |-> cret.args.table,
                       expr |-> [col |-> cret.args.pkcol, eq |-> cret.args.pk]]>>
        /\ cret.args.reported.err = "ok" => cret.res = Ok(<<>>)
        /\ cret.args.reported.err # "ok" => cret.res = cret.args.reported

\* an async delete for which delete_where reported no deleted row
C26_Witness ==
    /\ cret.op = "delete"
    /\ cret.args.conv = "async"
    /\ cret.args.reported = Ok(0)
    /\ cret.res = Ok(<<>>)
    /\ Len(ccalls) = 1

\* ------------------------------------------------ claims on the cells
\* C30: for the cell of a ForeignKey and for the cell of a Many, whatever
\* the interleaving of the concurrent load() callers, at most one caller is
\* computing the value of the cell at any time, every caller that returned
\* successfully through the cell holds the value the cell holds, and a
\* value once in the cell stays.
C30_SingleFlight ==
    /\ [](/\ Cardinality({c \in Callers : pc[c] = "computing"}) <= 1
          /\ Cardinality({c \in Callers : lpc[c] \in {"query1", "query2"}}) <= 1
          /\ \A c \in Callers :
                (pc[c] = "done" /\ IsOk(res[c])) => fk.val = res[c].val
          /\ \A c \in Callers :
                (lpc[c] = "done" /\ IsOk(lres[c]) /\ IsSome(owner)) =>
                    all_values = lres[c].val)
    /\ [][/\ IsSome(fk.val) => fk'.val = fk.val
          /\ IsSome(all_values) => all_values' = all_values]_vars

\* two callers, one of load_ordered(Asc) and one of load_ordered(Desc), on
\* a Many with two members and a pending addition both found the cell empty
\* and both returned the three values that one of them stored
C30_Witness ==
    \E c, d \in Callers :
        /\ c # d
        /\ lpc[c] = "done" /\ IsOk(lres[c])
        /\ lpc[d] = "done" /\ IsOk(lres[d])
        /\ lord[c] = "Asc" /\ lord[d] = "Desc"
        /\ IsSome(all_values) /\ Len(Unwrap(all_values)) = 3

\* ------------------------------------------- claims on the key side
\* a step in which pk() was called
PkStep ==
    /\ kret'.op = "pk"
    /\ (kret.op # "pk" \/ kret'.was # kret.was \/ kret'.res # kret.res)

\* C31 (as stated): the first pk() on a reference that holds only its value
\* returns the key of the value and stores it in the valpk cell; a populated
\* valpk cell never changes.
C31_PkMemoizes ==
    [][/\ (PkStep /\ IsSome(fk.val) /\ ~IsSome(fk.valpk)) =>
             /\ kret'.res = Ok(Unwrap(fk.val).pk)
             /\ fk'.valpk = Some(ToSql(Unwrap(fk.val).pk))
       /\ IsSome(fk.valpk) => fk'.valpk = fk.valpk]_vars

\* C31 (amended): pk() on a reference that holds a value returns the key of
\* the value and leaves both cells as they are; when the valpk cell of a
\* reference that holds its value is filled, which to_sql and clone do and
\* pk() does not, it is filled with the key of the value; a populated valpk
\* cell never changes.
C31_PkDerives ==
    /\ [](kret.op = "pk" /\ IsSome(kret.was.val) =>
             kret.res = Ok(Unwrap(kret.was.val).pk))
    /\ [][/\ PkStep => fk' = fk
          /\ (IsSome(fk.val) /\ ~IsSome(fk.valpk) /\ IsSome(fk'.valpk)) =>
                /\ fk'.valpk = Some(ToSql(Unwrap(fk.val).pk))
                /\ ~PkStep
          /\ IsSome(fk.valpk) => fk'.valpk = fk.valpk]_vars

\* pk() returned the key of a reference built from an entity, and the
\* valpk cell of the reference is still empty
C31_Witness ==
    /\ kret.op = "pk"
    /\ origin.kind = "from_entity"
    /\ kret.was = fk
    /\ IsSome(fk.val) /\ ~IsSome(fk.valpk)
    /\ kret.res = Ok(Unwrap(fk.val).pk)

\* ------------------------------------- claims on the order of the logs
\* C32: a successful save() respects the order of add and remove of one
\* member: after remove(A) followed by add(A) the owner has a join row for
\* A, after add(A) followed by remove(A) it has none.
C32_LastOpWins ==
    [][(ret'.op = "save" /\ IsOk(ret'.res) /\ IsSome(owner) /\ IsOk(ret.res)) =>
          \A k \in ValidKeys :
             /\ (ret.op = "add" /\ ret.arg = k /\ k \in RemovedKeys) =>
                   join'[item_table][<<Unwrap(owner), k>>] > 0
             /\ (ret.op = "remove" /\ ret.arg = k /\ ToSql(k) \in SetOf(new_values)) =>
                   join'[item_table][<<Unwrap(owner), k>>] = 0]_vars

\* ------------------------------------------ claims on serialization
\* C33: a reference with at least one cell populated and a readable key,
\* serialized and deserialized, is a reference with at least one cell
\* populated, with the same key, that compares equal to the original.
C33_RoundTrip ==
    (/\ kret.op = "serde"
     /\ IsSome(kret.was.val) \/ IsSome(kret.was.valpk)
     /\ IsOk(pk(kret.was))) =>
        /\ IsOk(kret.res)
        /\ LET g == Unwrap(kret.res.val) IN
           /\ IsSome(g.val) \/ IsSome(g.valpk)
           /\ pk(g) = pk(kret.was)
           /\ eq(g, kret.was) = Ok(TRUE)
           /\ eq(kret.was, g) = Ok(TRUE)

\* ------------------------------------------- claims on the two cells
\* the ways of building a reference that C34 is about
ApiKinds == {"from_pk", "from_entity", "from_ref", "from_sql_ref", "clone"}

\* a step of clone(): the model goes on with the clone
CloneStep == origin'.kind = "clone" /\ ~IsSome(fk'.val) /\ IsSome(fk.val)

\* C34: for a reference built by from_pk, From<T>, From<&T>, from_sql_ref
\* or clone, under load, pk, to_sql, clone and eq: when both cells are
\* populated, valpk is the key of val; a populated cell keeps its content;
\* the clone holds the key of the reference it was made from.
C34_CellsAgree ==
    /\ []((origin.kind \in ApiKinds /\ IsSome(fk.val) /\ IsSome(fk.valpk)) =>
             Unwrap(fk.valpk) = ToSql(Unwrap(fk.val).pk))
    /\ [][origin.kind \in ApiKinds =>
             /\ IsSome(fk.valpk) => fk'.valpk = fk.valpk
             /\ (IsSome(fk.val) /\ ~CloneStep) => fk'.val = fk.val
             /\ (IsSome(fk.val) /\ CloneStep) =>
                   fk'.valpk = Some(ToSql(Unwrap(fk.val).pk))]_vars

\* a clone was resolved by a lookup and then compared with another
\* reference: both of its cells are populated
C34_Witness ==
    /\ origin.kind = "clone"
    /\ IsSome(fk.val) /\ IsSome(fk.valpk)
    /\ lookups = 1
    /\ kret.op = "eq"
    /\ kret.was = fk

====
